---- MODULE Spec2Model ----
(***************************************************************************)
(* Model of musicbot1.py: a FastAPI webhook endpoint that feeds a          *)
(* python-telegram-bot Application, the /start and /song command handlers, *)
(* and the startup / shutdown hooks.                                       *)
(*                                                                         *)
(* Every coroutine is cut at its awaits.  One action is the completion of  *)
(* the pending await (with its outcome) followed by the synchronous code   *)
(* that runs up to the next await, which is what the event loop executes   *)
(* without interruption.  The chat platform, the extraction library and    *)
(* the file system are collaborators: a call to one either succeeds or     *)
(* raises, and both outcomes are explored.                                 *)
(***************************************************************************)
EXTENDS Integers, Sequences, FiniteSets, TLC

VARIABLES
    application,       \* the PTB Application: [initialized, running, fetching]
    webhook,           \* URL registered at the platform, <<>> when none
    update_queue,      \* application.update_queue: ids of the queued updates
    req,               \* HTTP requests to POST /{token}, by request id
    nreq,              \* number of requests received so far
    startup,           \* on_startup: [pc, log]
    shutdown,          \* on_shutdown: [pc, log, results]
    inv,               \* handler invocations, by update id
    dispatched,        \* how many times each update was taken from the queue
    files,             \* paths present in DOWNLOAD_DIR
    sent               \* documents delivered to chats

vars == <<application, webhook, update_queue, req, nreq, startup, shutdown,
          inv, dispatched, files, sent>>

----------------------------------------------------------------------------
(* Bounds *)

MaxRequests == 2

MaxShutdownCalls == 2

Ids == 1..MaxRequests

----------------------------------------------------------------------------
(* Config *)

TOKEN == "tok"

PathTokens == {"tok", "bad"}

BaseUrlEnv == <<"h", "/">>

RECURSIVE RStrip(_, _)
RStrip(s, ch) ==
    IF s # <<>> /\ s[Len(s)] = ch THEN RStrip(SubSeq(s, 1, Len(s) - 1), ch) ELSE s

BASE_URL == RStrip(BaseUrlEnv, "/")

DOWNLOAD_DIR == "/tmp"

WebhookUrl == BASE_URL \o <<"/">> \o <<TOKEN>>

----------------------------------------------------------------------------
(* Request bodies and updates *)

Malformed == [cmd |-> "malformed", args |-> <<>>]

Updates ==
    { [cmd |-> "start", args |-> <<>>],
      [cmd |-> "song",  args |-> <<>>],
      [cmd |-> "song",  args |-> <<"a", "b">>] }

Bodies == {Malformed} \cup Updates

WellFormed(body) == body \in Updates

NoBody == [cmd |-> "", args |-> <<>>]

----------------------------------------------------------------------------
(* Texts shown in the chat *)

Text(kind, arg) == [kind |-> kind, arg |-> arg]

StartText == Text("Hi! Send /song <name>", <<>>)

UsageText == Text("Usage: /song <song name>", <<>>)

RECURSIVE Join(_, _)
Join(sep, words) ==
    IF Len(words) <= 1 THEN words
    ELSE <<Head(words), sep>> \o Join(sep, Tail(words))

SearchingText(query) == Text("Searching for", query)

FoundText(title) == Text("Found: / Uploading", <<title>>)

DoneText == Text("Done!", <<>>)

ErrorText(e) == Text("Error:", <<e>>)

----------------------------------------------------------------------------
(* The extraction collaborator and the download directory *)

NoTitle == "None"

EntryTitles == {"t1"}

ExtractOutcomes == {"raise", "empty"} \cup EntryTitles

PrepareFilename(entry_title) ==
    [dir  |-> DOWNLOAD_DIR,
     stem |-> IF entry_title = NoTitle THEN "NA" ELSE entry_title,
     ext  |-> "webm"]

TitleOf(entry_title, filepath) ==
    IF entry_title # NoTitle THEN entry_title ELSE filepath.stem

FileName(filepath) == <<filepath.stem, ".", filepath.ext>>

NoPath == [dir |-> "", stem |-> "", ext |-> ""]

----------------------------------------------------------------------------
(* Initial state: the module has been imported, nothing has run *)

NoReq == [pc |-> "none", token |-> "", body |-> NoBody, read |-> FALSE,
          decoded |-> FALSE, resp |-> 0]

NoInv == [pc |-> "none", title |-> "", path |-> NoPath, err |-> "", log |-> <<>>]

Init ==
    /\ application = [initialized |-> FALSE, running |-> FALSE, fetching |-> FALSE]
    /\ webhook = <<>>
    /\ update_queue = <<>>
    /\ req = [r \in Ids |-> NoReq]
    /\ nreq = 0
    /\ startup = [pc |-> "idle", log |-> <<>>]
    /\ shutdown = [pc |-> "idle", log |-> <<>>, results |-> <<>>]
    /\ inv = [i \in Ids |-> NoInv]
    /\ dispatched = [i \in Ids |-> 0]
    /\ files = {}
    /\ sent = {}

----------------------------------------------------------------------------
(* telegram_webhook *)

\* A handler that lets every path token through.
TokenOkAny(token) == TRUE

TokenOk(token) == token = TOKEN

\* A handler that puts the update on the queue twice.
PutTwice(queue, update) == Append(Append(queue, update), update)

Put(queue, update) == Append(queue, update)

\* The request arrives; the handler runs up to `await request.json()`.  The
\* body is held by the handler only from there on: a rejected request's
\* body, whatever it is, never enters the state.
WebhookReceive(token, body) ==
    /\ nreq < MaxRequests
    /\ nreq' = nreq + 1
    /\ LET r == nreq + 1 IN
       req' = [req EXCEPT ![r] =
                 IF TokenOk(token)
                 THEN [NoReq EXCEPT !.pc = "reading", !.token = token, !.body = body]
                 ELSE [NoReq EXCEPT !.pc = "done", !.token = token, !.resp = 403]]
    /\ UNCHANGED <<application, webhook, update_queue, startup, shutdown, inv,
                   dispatched, files, sent>>

\* The body has been read: decode, enqueue, answer.  A body that does not
\* parse raises out of the handler, which the framework answers with 500.
WebhookBody(r) ==
    /\ req[r].pc = "reading"
    /\ IF WellFormed(req[r].body)
       THEN /\ req' = [req EXCEPT ![r].pc = "done", ![r].read = TRUE,
                                  ![r].decoded = TRUE, ![r].resp = 200]
            /\ update_queue' = Put(update_queue, r)
       ELSE /\ req' = [req EXCEPT ![r].pc = "done", ![r].read = TRUE, ![r].resp = 500]
            /\ UNCHANGED update_queue
    /\ UNCHANGED <<application, webhook, nreq, startup, shutdown, inv, dispatched,
                   files, sent>>

----------------------------------------------------------------------------
(* on_startup *)

StartupBegin ==
    /\ startup.pc = "idle"
    /\ startup' = [pc |-> "initialize", log |-> <<"initialize">>]
    /\ UNCHANGED <<application, webhook, update_queue, req, nreq, shutdown, inv,
                   dispatched, files, sent>>

\* application.initialize() contacts the platform and may fail.
StartupInitializeDone(ok) ==
    /\ startup.pc = "initialize"
    /\ IF ok
       THEN /\ application' = [application EXCEPT !.initialized = TRUE]
            /\ startup' = [pc |-> "start", log |-> Append(startup.log, "start")]
       ELSE /\ startup' = [startup EXCEPT !.pc = "failed"]
            /\ UNCHANGED application
    /\ UNCHANGED <<webhook, update_queue, req, nreq, shutdown, inv, dispatched,
                   files, sent>>

\* application.start() raises when the application is not initialized or is
\* already running; otherwise the task that fetches updates is started.
StartupStartDone ==
    /\ startup.pc = "start"
    /\ IF application.initialized /\ ~application.running
       THEN /\ application' = [application EXCEPT !.running = TRUE, !.fetching = TRUE]
            /\ startup' = [pc |-> "set_webhook",
                           log |-> Append(startup.log, "set_webhook")]
       ELSE /\ startup' = [startup EXCEPT !.pc = "failed"]
            /\ UNCHANGED application
    /\ UNCHANGED <<webhook, update_queue, req, nreq, shutdown, inv, dispatched,
                   files, sent>>

StartupSetWebhookDone(ok) ==
    /\ startup.pc = "set_webhook"
    /\ IF ok
       THEN /\ webhook' = WebhookUrl
            /\ startup' = [startup EXCEPT !.pc = "done"]
       ELSE /\ startup' = [startup EXCEPT !.pc = "failed"]
            /\ UNCHANGED webhook
    /\ UNCHANGED <<application, update_queue, req, nreq, shutdown, inv, dispatched,
                   files, sent>>

----------------------------------------------------------------------------
(* on_shutdown *)

\* The framework runs the shutdown hook only after a completed startup.
ShutdownBegin ==
    /\ startup.pc = "done"
    /\ shutdown.pc = "idle"
    /\ Len(shutdown.results) < MaxShutdownCalls
    /\ shutdown' = [shutdown EXCEPT !.pc = "delete_webhook",
                                    !.log = <<"delete_webhook">>]
    /\ UNCHANGED <<application, webhook, update_queue, req, nreq, startup, inv,
                   dispatched, files, sent>>

\* The item application.stop() puts on the update queue.
StopSignal == 0

\* A hook that does not swallow the failure of delete_webhook.
AfterDeleteWebhookUnswallowed(ok) == IF ok THEN "stop" ELSE "raise"

\* What on_shutdown does once delete_webhook has returned or raised.
AfterDeleteWebhook(ok) == "stop"

\* delete_webhook needs the bot's HTTP client, which application.shutdown()
\* closes; with the client open the call may still fail on the network.
\* Then application.stop() is called: it raises RuntimeError at once when the
\* application is not running; otherwise it clears the running flag, puts
\* its stop signal behind the updates already queued and waits for the
\* fetcher to reach it.
ShutdownDeleteWebhookDone(ok) ==
    /\ shutdown.pc = "delete_webhook"
    /\ ok => application.initialized
    /\ webhook' = IF ok THEN <<>> ELSE webhook
    /\ IF AfterDeleteWebhook(ok) # "stop"
       THEN /\ shutdown' = [shutdown EXCEPT !.pc = "idle",
                                            !.results = Append(@, "raised")]
            /\ UNCHANGED <<application, update_queue>>
       ELSE IF application.running
       THEN /\ application' = [application EXCEPT !.running = FALSE]
            /\ update_queue' = Append(update_queue, StopSignal)
            /\ shutdown' = [shutdown EXCEPT !.pc = "stop", !.log = Append(@, "stop")]
       ELSE /\ shutdown' = [shutdown EXCEPT !.pc = "idle", !.log = Append(@, "stop"),
                                            !.results = Append(@, "raised")]
            /\ UNCHANGED <<application, update_queue>>
    /\ UNCHANGED <<req, nreq, startup, inv, dispatched, files, sent>>

\* The fetcher has met the stop signal and ended: stop() returns and
\* application.shutdown() is called.
ShutdownStopDone ==
    /\ shutdown.pc = "stop"
    /\ ~application.fetching
    /\ shutdown' = [shutdown EXCEPT !.pc = "shutdown", !.log = Append(@, "shutdown")]
    /\ UNCHANGED <<application, webhook, update_queue, req, nreq, startup, inv,
                   dispatched, files, sent>>

\* application.shutdown() raises when still running and returns at once when
\* the application is already shut down.
ShutdownShutdownDone ==
    /\ shutdown.pc = "shutdown"
    /\ IF application.running
       THEN /\ shutdown' = [shutdown EXCEPT !.pc = "idle",
                                            !.results = Append(@, "raised")]
            /\ UNCHANGED application
       ELSE /\ application' = [application EXCEPT !.initialized = FALSE]
            /\ shutdown' = [shutdown EXCEPT !.pc = "idle",
                                            !.results = Append(@, "ok")]
    /\ UNCHANGED <<webhook, update_queue, req, nreq, startup, inv, dispatched,
                   files, sent>>

----------------------------------------------------------------------------
(* Command dispatch *)

Event(kind, text) == <<kind, text>>

NoText == Text("", <<>>)

UnlinkResult(unlinked) == Text(IF unlinked THEN "removed" ELSE "failed", <<>>)

\* A handler without the usage branch.
ArgsNeverEmpty(args) == FALSE

ArgsEmpty(args) == args = <<>>

\* The first await of the handler registered for the update's command.
FirstAwait(update) ==
    IF update.cmd = "start" THEN "reply_start"
    ELSE IF ArgsEmpty(update.args) THEN "reply_usage"
    ELSE "reply_search"

\* The fetcher takes the next item off the queue.  An update is handed to
\* its handler, which runs up to its first await.  The stop signal ends the
\* fetcher: what is queued behind it is never fetched.  The fetcher may take
\* the next update while earlier handlers are suspended at an await (the
\* interleaving the design's concurrency section states); runs in which each
\* handler finishes before the next update is taken are among the behaviours.
Dispatch ==
    /\ application.fetching
    /\ update_queue # <<>>
    /\ update_queue' = Tail(update_queue)
    /\ LET u == Head(update_queue) IN
       IF u = StopSignal
       THEN /\ application' = [application EXCEPT !.fetching = FALSE]
            /\ UNCHANGED <<dispatched, inv>>
       ELSE /\ dispatched' = [dispatched EXCEPT ![u] = @ + 1]
            /\ inv' = [inv EXCEPT ![u] = [NoInv EXCEPT !.pc = FirstAwait(req[u].body)]]
            /\ UNCHANGED application
    /\ UNCHANGED <<webhook, req, nreq, startup, shutdown, files, sent>>

----------------------------------------------------------------------------
(* start_cmd *)

StartReplyDone(i, ok) ==
    /\ inv[i].pc = "reply_start"
    /\ inv' = [inv EXCEPT ![i] =
                 IF ok THEN [@ EXCEPT !.pc = "returned",
                                      !.log = Append(@, Event("reply", StartText))]
                 ELSE [@ EXCEPT !.pc = "raised"]]
    /\ UNCHANGED <<application, webhook, update_queue, req, nreq, startup, shutdown,
                   dispatched, files, sent>>

----------------------------------------------------------------------------
(* song_cmd *)

Query(i) == Join(" ", req[i].body.args)

\* A handler without the try block: the exception leaves it.
OnExceptionUncaught(e) == [pc |-> "raised", err |-> e]

\* Where control goes when a statement inside the try block raises e.
OnException(e) == [pc |-> "edit_error", err |-> e]

Raise(r, e) == [r EXCEPT !.pc = OnException(e).pc, !.err = OnException(e).err]

SongUsageReplyDone(i, ok) ==
    /\ inv[i].pc = "reply_usage"
    /\ inv' = [inv EXCEPT ![i] =
                 IF ok THEN [@ EXCEPT !.pc = "returned",
                                      !.log = Append(@, Event("reply", UsageText))]
                 ELSE [@ EXCEPT !.pc = "raised"]]
    /\ UNCHANGED <<application, webhook, update_queue, req, nreq, startup, shutdown,
                   dispatched, files, sent>>

\* The status message exists; extract_info runs synchronously, then the
\* "Found" edit is awaited.
SongSearchReplyDone(i, ok, out) ==
    /\ inv[i].pc = "reply_search"
    /\ IF ~ok
       THEN /\ out = "raise"
            /\ inv' = [inv EXCEPT ![i].pc = "raised"]
            /\ UNCHANGED files
       ELSE LET shown == [inv[i] EXCEPT
                            !.log = @ \o <<Event("reply", SearchingText(Query(i))),
                                           Event("extract", NoText)>>]
            IN  IF out = "raise"
                THEN /\ inv' = [inv EXCEPT ![i] = Raise(shown, "DownloadError")]
                     /\ UNCHANGED files
                ELSE IF out = "empty"
                THEN /\ inv' = [inv EXCEPT ![i] = Raise(shown, "IndexError")]
                     /\ UNCHANGED files
                ELSE LET filepath == PrepareFilename(out) IN
                     /\ files' = files \cup {filepath}
                     /\ inv' = [inv EXCEPT ![i] =
                                  [shown EXCEPT !.pc = "edit_found",
                                                !.path = filepath,
                                                !.title = TitleOf(out, filepath)]]
    /\ UNCHANGED <<application, webhook, update_queue, req, nreq, startup, shutdown,
                   dispatched, sent>>

SongFoundEditDone(i, ok) ==
    /\ inv[i].pc = "edit_found"
    /\ inv' = [inv EXCEPT ![i] =
                 IF ok THEN [@ EXCEPT !.pc = "open",
                                      !.log = Append(@, Event("edit", FoundText(inv[i].title)))]
                 ELSE Raise(@, "EditFailed")]
    /\ UNCHANGED <<application, webhook, update_queue, req, nreq, startup, shutdown,
                   dispatched, files, sent>>

\* Opening the file fails when the path is no longer there, and may fail
\* for other reasons of the file system.
SongOpenDone(i, ok) ==
    /\ inv[i].pc = "open"
    /\ inv' = [inv EXCEPT ![i] =
                 IF inv[i].path \notin files THEN Raise(@, "FileNotFoundError")
                 ELSE IF ok THEN [@ EXCEPT !.pc = "send",
                                           !.log = Append(@, Event("open", NoText))]
                 ELSE Raise(@, "OSError")]
    /\ UNCHANGED <<application, webhook, update_queue, req, nreq, startup, shutdown,
                   dispatched, files, sent>>

\* The document is sent; the file is closed and unlinked (a failure of the
\* unlink is swallowed), then the "Done!" edit is awaited.
SongSendDone(i, ok, unlinked) ==
    /\ inv[i].pc = "send"
    /\ IF ok
       THEN /\ sent' = sent \cup {[chat |-> i, filename |-> FileName(inv[i].path),
                                   caption |-> inv[i].title]}
            /\ files' = IF unlinked THEN files \ {inv[i].path} ELSE files
            /\ inv' = [inv EXCEPT ![i].pc = "edit_done",
                                  ![i].log = @ \o <<Event("send", NoText),
                                                    Event("unlink", UnlinkResult(unlinked))>>]
       ELSE /\ unlinked = FALSE
            /\ inv' = [inv EXCEPT ![i] = Raise(@, "SendFailed")]
            /\ UNCHANGED <<files, sent>>
    /\ UNCHANGED <<application, webhook, update_queue, req, nreq, startup, shutdown,
                   dispatched>>

SongDoneEditDone(i, ok) ==
    /\ inv[i].pc = "edit_done"
    /\ inv' = [inv EXCEPT ![i] =
                 IF ok THEN [@ EXCEPT !.pc = "returned",
                                      !.log = Append(@, Event("edit", DoneText))]
                 ELSE Raise(@, "EditFailed")]
    /\ UNCHANGED <<application, webhook, update_queue, req, nreq, startup, shutdown,
                   dispatched, files, sent>>

\* The except block: the edit to "Error: ..." is not itself guarded.
SongErrorEditDone(i, ok) ==
    /\ inv[i].pc = "edit_error"
    /\ inv' = [inv EXCEPT ![i] =
                 IF ok THEN [@ EXCEPT !.pc = "returned",
                                      !.log = Append(@, Event("edit", ErrorText(inv[i].err)))]
                 ELSE [@ EXCEPT !.pc = "raised"]]
    /\ UNCHANGED <<application, webhook, update_queue, req, nreq, startup, shutdown,
                   dispatched, files, sent>>

----------------------------------------------------------------------------
(* Specifications *)

Handler(i) ==
    \/ \E ok \in BOOLEAN : StartReplyDone(i, ok)
    \/ \E ok \in BOOLEAN : SongUsageReplyDone(i, ok)
    \/ \E ok \in BOOLEAN, out \in ExtractOutcomes : SongSearchReplyDone(i, ok, out)
    \/ \E ok \in BOOLEAN : SongFoundEditDone(i, ok)
    \/ \E ok \in BOOLEAN : SongOpenDone(i, ok)
    \/ \E ok \in BOOLEAN, unlinked \in BOOLEAN : SongSendDone(i, ok, unlinked)
    \/ \E ok \in BOOLEAN : SongDoneEditDone(i, ok)
    \/ \E ok \in BOOLEAN : SongErrorEditDone(i, ok)

Hooks ==
    \/ StartupBegin
    \/ \E ok \in BOOLEAN : StartupInitializeDone(ok)
    \/ StartupStartDone
    \/ \E ok \in BOOLEAN : StartupSetWebhookDone(ok)
    \/ ShutdownBegin
    \/ \E ok \in BOOLEAN : ShutdownDeleteWebhookDone(ok)
    \/ ShutdownStopDone
    \/ ShutdownShutdownDone

Next ==
    \/ \E token \in PathTokens, body \in Bodies : WebhookReceive(token, body)
    \/ \E r \in Ids : WebhookBody(r)
    \/ Hooks
    \/ Dispatch
    \/ \E i \in Ids : Handler(i)

Spec == Init /\ [][Next]_vars

\* The event loop runs every coroutine that is ready: a read body is
\* processed, a queued update is fetched while the application runs, a
\* pending await of a handler or hook completes.  Requests and the calls of
\* the hooks come from outside and are not forced.
FairSpec ==
    /\ Spec
    /\ WF_vars(\E r \in Ids : WebhookBody(r))
    /\ WF_vars(Dispatch)
    /\ WF_vars(\E i \in Ids : Handler(i))
    /\ WF_vars(\E ok \in BOOLEAN : StartupInitializeDone(ok))
    /\ WF_vars(StartupStartDone)
    /\ WF_vars(\E ok \in BOOLEAN : StartupSetWebhookDone(ok))
    /\ WF_vars(\E ok \in BOOLEAN : ShutdownDeleteWebhookDone(ok))
    /\ WF_vars(ShutdownStopDone)
    /\ WF_vars(ShutdownShutdownDone)

----------------------------------------------------------------------------
(* Helpers of the properties *)

InQueue(u) == \E k \in 1..Len(update_queue) : update_queue[k] = u

Occurrences(queue, u) == Cardinality({k \in 1..Len(queue) : queue[k] = u})

IsShown(e) == e[1] \in {"reply", "edit"}

\* The successive texts of the messages a handler has sent or edited.
Shown(log) ==
    LET s == SelectSeq(log, IsShown) IN [k \in 1..Len(s) |-> s[k][2]]

Count(log, kind) == Cardinality({k \in 1..Len(log) : log[k][1] = kind})

IsUsageCall(i) == req[i].body.cmd = "song" /\ req[i].body.args = <<>>

IsSearchCall(i) == req[i].body.cmd = "song" /\ req[i].body.args # <<>>

----------------------------------------------------------------------------
(* C1 *)

\* C1: a POST whose path token differs from the configured token is answered
\* 403 in the step that receives it; its body is never read, no update is
\* decoded, the update queue is the same after the step as before it, and the
\* request never reaches the queue or the dispatcher, in whatever state the
\* application is.
C1_TokenMismatchRejected ==
    /\ [](\A r \in Ids :
            (req[r].pc # "none" /\ req[r].token # "tok") =>
                /\ req[r].pc = "done"
                /\ req[r].resp = 403
                /\ ~req[r].read
                /\ ~req[r].decoded
                /\ ~InQueue(r)
                /\ dispatched[r] = 0)
    /\ [][(nreq' = nreq + 1 /\ req'[nreq'].token # "tok") =>
            /\ update_queue' = update_queue
            /\ application' = application
            /\ inv' = inv]_vars

\* A rejected request next to a queued update and a running application.
C1_Witness ==
    \E r \in Ids :
        /\ req[r].resp = 403
        /\ update_queue # <<>>
        /\ application.running

----------------------------------------------------------------------------
(* C2 *)

\* C2: a POST with the configured token and a well-formed update is answered
\* 200, and the step that answers it appends that update, once, to the queue
\* as it was; an accepted update is in the queue or with the dispatcher
\* exactly once.
C2_AcceptedEnqueuedOnce ==
    /\ [](\A r \in Ids :
            (req[r].pc = "done" /\ req[r].token = "tok" /\ req[r].body \in Updates) =>
                /\ req[r].resp = 200
                /\ Occurrences(update_queue, r) + dispatched[r] = 1)
    /\ [][\A r \in Ids :
            (req[r].pc = "reading" /\ req'[r].pc = "done" /\ req[r].body \in Updates) =>
                /\ req'[r].resp = 200
                /\ update_queue' = Append(update_queue, r)]_vars

\* Two accepted requests in a row, both still queued.
C2_Witness ==
    /\ Len(update_queue) = 2
    /\ \A r \in {1, 2} : req[r].resp = 200

----------------------------------------------------------------------------
(* C3 *)

\* C3: a song invocation with no arguments does nothing but reply once with
\* the usage text: it never calls the extraction collaborator, creates or
\* edits no status message, sends no document, and none of its steps changes
\* the download directory or the documents sent.
C3_UsageOnly ==
    /\ [](\A i \in Ids :
            (IsUsageCall(i) /\ inv[i].pc # "none") =>
                /\ inv[i].pc \in {"reply_usage", "returned", "raised"}
                /\ inv[i].log \in {<<>>, <<Event("reply", UsageText)>>}
                /\ (inv[i].pc = "returned") = (inv[i].log # <<>>)
                /\ inv[i].path = NoPath
                /\ \A d \in sent : d.chat # i)
    /\ [][\A i \in Ids :
            (IsUsageCall(i) /\ inv'[i] # inv[i]) =>
                /\ files' = files
                /\ sent' = sent]_vars

\* The usage reply was sent while another invocation's file is on disk.
C3_Witness ==
    \E i \in Ids :
        /\ IsUsageCall(i)
        /\ inv[i].pc = "returned"
        /\ inv[i].log = <<Event("reply", UsageText)>>
        /\ files # {}

----------------------------------------------------------------------------
(* C4 *)

SongLog(i) ==
    <<Event("reply", SearchingText(Query(i))),
      Event("extract", NoText),
      Event("edit", FoundText(inv[i].title)),
      Event("open", NoText),
      Event("send", NoText),
      Event("unlink", UnlinkResult(TRUE)),
      Event("edit", DoneText)>>

----------------------------------------------------------------------------
(* C5 *)

\* The exceptions of the steps the claim lists: extraction or download, taking
\* the first entry, opening the file, sending the document.
ListedErrors == {"DownloadError", "IndexError", "FileNotFoundError", "OSError",
                 "SendFailed"}

NeverShown(log, text) == \A k \in 1..Len(Shown(log)) : Shown(log)[k] # text

LastShown(log) == Shown(log)[Len(Shown(log))]

\* C5 as stated: once one of the listed steps has raised and the handler is
\* over, the handler has returned normally with the status message showing
\* "Error: {message}", and "Done!" was never shown.
C5_AlwaysReported ==
    \A i \in Ids :
        (inv[i].err \in ListedErrors /\ inv[i].pc # "edit_error") =>
            /\ inv[i].pc = "returned"
            /\ LastShown(inv[i].log) = ErrorText(inv[i].err)
            /\ NeverShown(inv[i].log, DoneText)

\* C5 amended: an exception of a listed step is caught: the handler's next
\* and last await is one edit of the status message to "Error: {message}".  No
\* step is retried and "Done!" is never shown.  If that edit succeeds the
\* status shows the error text and the handler returns normally; if the edit
\* itself raises, the exception leaves the handler and no error text is shown.
C5_CaughtAndReportedOnce ==
    /\ [](\A i \in Ids :
            inv[i].err \in ListedErrors =>
                /\ inv[i].pc \in {"edit_error", "returned", "raised"}
                /\ NeverShown(inv[i].log, DoneText)
                /\ Count(inv[i].log, "extract") = 1
                /\ Count(inv[i].log, "open") <= 1
                /\ Count(inv[i].log, "send") = 0
                /\ (inv[i].pc = "returned") =>
                       /\ LastShown(inv[i].log) = ErrorText(inv[i].err)
                       /\ Count(inv[i].log, "edit") <= 2
                /\ (inv[i].pc # "returned") =>
                       NeverShown(inv[i].log, ErrorText(inv[i].err)))
    /\ [][\A i \in Ids :
            /\ (inv[i].err = "" /\ inv'[i].err \in ListedErrors) =>
                   inv'[i].pc = "edit_error"
            /\ (inv[i].err \in ListedErrors /\ inv'[i] # inv[i]) =>
                   /\ inv[i].pc = "edit_error"
                   /\ inv'[i].pc \in {"returned", "raised"}
                   /\ inv'[i].err = inv[i].err
                   /\ files' = files
                   /\ sent' = sent]_vars

\* Sending the document failed, the error was reported, the handler returned.
C5_Witness ==
    \E i \in Ids :
        /\ inv[i].err = "SendFailed"
        /\ inv[i].pc = "returned"
        /\ LastShown(inv[i].log) = ErrorText("SendFailed")

----------------------------------------------------------------------------
(* C6 *)

\* C6: a second call of the shutdown hook, after the first has stopped and
\* torn down the chat client, completes without raising.
C6_SecondShutdownDoesNotRaise ==
    Len(shutdown.results) >= 2 =>
        /\ shutdown.results[1] = "ok"
        /\ shutdown.results[2] = "ok"

----------------------------------------------------------------------------
(* C7 *)

----------------------------------------------------------------------------
(* C8 *)

StartupOrder == <<"initialize", "start", "set_webhook">>

ShutdownOrder == <<"delete_webhook", "stop", "shutdown">>

IsPrefix(s, full) == Len(s) <= Len(full) /\ SubSeq(full, 1, Len(s)) = s

\* C8: the startup hook calls initialize, start and set_webhook in this order,
\* registers the URL {base_url}/{token}, and a call that fails ends the hook
\* with no later call made; the shutdown hook calls delete_webhook, then stop
\* whether or not delete_webhook failed, then shutdown, and its first call
\* leaves the chat client stopped and torn down.
C8_LifecycleOrder ==
    /\ [](/\ IsPrefix(startup.log, StartupOrder)
          /\ IsPrefix(shutdown.log, ShutdownOrder)
          /\ (startup.pc \in {"initialize", "start", "set_webhook"}) =>
                 startup.log[Len(startup.log)] = startup.pc
          /\ (startup.pc = "done") => startup.log = StartupOrder
          /\ (startup.pc = "failed" /\ startup.log # StartupOrder) =>
                 (~application.initialized /\ ~application.running)
          /\ (webhook # <<>>) =>
                 (webhook = <<"h", "/", "tok">> /\ startup.pc = "done")
          /\ (shutdown.pc \in {"delete_webhook", "stop", "shutdown"}) =>
                 shutdown.log[Len(shutdown.log)] = shutdown.pc
          /\ (shutdown.results # <<>>) =>
                 /\ shutdown.results[1] = "ok"
                 /\ ~application.running
                 /\ ~application.fetching
                 /\ ~application.initialized)
    /\ [][/\ (startup.pc = "failed") =>
                 (startup' = startup /\ application' = application
                                     /\ webhook' = webhook)
          /\ (shutdown.pc = "delete_webhook" /\ shutdown' # shutdown) =>
                 /\ shutdown'.log = <<"delete_webhook", "stop">>
                 /\ ~application'.running
          /\ (shutdown.pc = "stop" /\ shutdown' # shutdown) =>
                 /\ shutdown'.log = ShutdownOrder
                 /\ ~application.running /\ ~application.fetching
                 /\ application.initialized
          /\ (shutdown.pc = "shutdown" /\ shutdown' # shutdown) =>
                 /\ shutdown'.results = Append(shutdown.results, "ok")
                 /\ ~application'.initialized]_vars

\* The first shutdown call is over: deregistration failed (the URL is still
\* registered), and the client was stopped and torn down all the same.
C8_Witness ==
    /\ shutdown.results = <<"ok">>
    /\ webhook = WebhookUrl
    /\ ~application.running
    /\ ~application.initialized

----------------------------------------------------------------------------
(* C9 *)

----------------------------------------------------------------------------
(* C10 *)

\* C10: in a process whose startup completed, every update the endpoint
\* accepted is taken by the dispatcher at most once, and is eventually taken.
C10_DispatchedExactlyOnce ==
    /\ [](\A u \in Ids : dispatched[u] <= 1)
    /\ \A u \in Ids :
         (req[u].resp = 200 /\ startup.pc = "done") ~> (dispatched[u] = 1)

====
